---- MODULE Spec2Model ----
(***************************************************************************)
(* Model of the reconciliation service                                     *)
(*   src/reconciliation-service/app/zingg_client.py  (ZinggClient)         *)
(*   src/reconciliation-service/app/main.py          (HTTP handlers)       *)
(*                                                                         *)
(* Python values are a small tagged union; strings are sequences of        *)
(* one-character strings so that str(), strip(), lower() and fuzz.ratio    *)
(* are computed, not assumed.  A similarity score is the exact mean of     *)
(* integer percentages, kept as a reduced fraction pct/den (the Python     *)
(* float is (pct/den)/100); a threshold t is given in percent, so the      *)
(* float comparison "score >= t" is pct >= t * den.                        *)
(***************************************************************************)
EXTENDS Integers, Sequences, FiniteSets, TLC

(* ------------------------------------------------------------------ *)
(* Bounds of the exploration                                            *)
(* ------------------------------------------------------------------ *)
MaxRecords == 3

\* the batch ceiling the claims speak of (settings.max_batch_size, read from
\* the environment, 10000 when unset), taken small enough for the lists of
\* the exploration to exceed it
max_batch_size == 2

(* ------------------------------------------------------------------ *)
(* Python values                                                        *)
(* ------------------------------------------------------------------ *)
StrV(chars) == [tag |-> "str", s |-> chars, items |-> << >>, pct |-> 0, den |-> 1]
NaN         == [tag |-> "nan", s |-> << >>, items |-> << >>, pct |-> 0, den |-> 1]
PyNone      == [tag |-> "none", s |-> << >>, items |-> << >>, pct |-> 0, den |-> 1]
ListV(xs)   == [tag |-> "list", s |-> << >>, items |-> xs, pct |-> 0, den |-> 1]
FloatV(p, d) == [tag |-> "float", s |-> << >>, items |-> << >>, pct |-> p, den |-> d]

\* pandas.isna: None and NaN are both nulls
IsNull(v) == v.tag \in {"nan", "none"}

\* bool(v): empty string, None and the empty list are falsy, float('nan')
\* is truthy
Truthy(v) == CASE v.tag = "str"  -> v.s # << >>
               [] v.tag = "none" -> FALSE
               [] v.tag = "list" -> v.items # << >>
               [] OTHER          -> TRUE

\* hash(v) raises TypeError for a list
Unhashable(v) == v.tag = "list"

\* repr of the items of a list, separated by ", "; a string item is quoted
RECURSIVE ReprItems(_)
ReprItems(xs) ==
    IF xs = << >> THEN << >>
    ELSE LET x == Head(xs)
             r == CASE x.tag = "str"  -> <<"'">> \o x.s \o <<"'">>
                    [] x.tag = "none" -> <<"N", "o", "n", "e">>
                    [] OTHER          -> <<"n", "a", "n">>
         IN  r \o (IF Len(xs) > 1 THEN <<",", " ">> ELSE << >>) \o ReprItems(Tail(xs))

\* str(v) for the values a cell can hold
PyStr(v) == CASE v.tag = "str"  -> v.s
              [] v.tag = "nan"  -> <<"n", "a", "n">>
              [] v.tag = "none" -> <<"N", "o", "n", "e">>
              [] v.tag = "list" -> <<"[">> \o ReprItems(v.items) \o <<"]">>
              [] OTHER          -> << >>

\* str(i) for a row position
Digits == <<"0", "1", "2", "3", "4", "5", "6", "7", "8", "9">>
StrOfInt(i) == IF i < 10 THEN <<Digits[i + 1]>>
               ELSE <<Digits[(i \div 10) + 1], Digits[(i % 10) + 1]>>

IsSpace(c) == c = " "

RECURSIVE LStrip(_)
LStrip(s) == IF s # << >> /\ IsSpace(Head(s)) THEN LStrip(Tail(s)) ELSE s

RECURSIVE RStrip(_)
RStrip(s) == IF s # << >> /\ IsSpace(s[Len(s)])
             THEN RStrip(SubSeq(s, 1, Len(s) - 1)) ELSE s

\* str.strip()
Strip(s) == RStrip(LStrip(s))

LowerChar(c) == CASE c = "A" -> "a"
                  [] c = "B" -> "b"
                  [] c = "N" -> "n"
                  [] c = "X" -> "x"
                  [] OTHER   -> c

\* str.lower()
Lower(s) == [i \in 1..Len(s) |-> LowerChar(s[i])]

\* f"{val1} | {val2}"
Separator == <<" ", "|", " ">>
FormatJoin(v1, v2) == StrV(PyStr(v1) \o Separator \o PyStr(v2))

(* ------------------------------------------------------------------ *)
(* fuzz.ratio                                                           *)
(* ------------------------------------------------------------------ *)
\* fuzzywuzzy binds its SequenceMatcher when it is imported: to the
\* StringMatcher of python-Levenshtein when that package is installed, to
\* difflib.SequenceMatcher otherwise.  The import in zingg_client.py admits
\* both, so the binding is part of the state, chosen once.
VARIABLE SequenceMatcher

SequenceMatchers == {"StringMatcher", "difflib"}

Max2(a, b) == IF a >= b THEN a ELSE b

\* StringMatcher.ratio is Levenshtein.ratio, (len1 + len2 - d) / (len1 + len2)
\* for the edit distance d in which a substitution costs 2: the matched
\* characters are a longest common subsequence
RECURSIVE LcsCount(_, _)
LcsCount(a, b) ==
    IF a = << >> \/ b = << >> THEN 0
    ELSE IF Head(a) = Head(b) THEN 1 + LcsCount(Tail(a), Tail(b))
    ELSE Max2(LcsCount(Tail(a), b), LcsCount(a, Tail(b)))

\* a[i .. i+k-1] = b[j .. j+k-1]
BlockAt(a, b, i, j, k) ==
    /\ i + k - 1 <= Len(a)
    /\ j + k - 1 <= Len(b)
    /\ \A d \in 0..(k - 1) : a[i + d] = b[j + d]

\* difflib.SequenceMatcher.get_matching_blocks: take the longest common
\* block, of the longest the one starting earliest in a, of these the one
\* starting earliest in b, then do the same to the left and to the right
\* of it; the matched characters are the sum of the block sizes
RECURSIVE BlockCount(_, _)
BlockCount(a, b) ==
    IF a = << >> \/ b = << >> THEN 0
    ELSE LET blocks == {t \in (1..Len(a)) \X (1..Len(b)) \X (1..Len(a)) :
                           BlockAt(a, b, t[1], t[2], t[3])}
         IN  IF blocks = {} THEN 0
             ELSE LET best == CHOOSE t \in blocks : \A u \in blocks :
                                 \/ t[3] > u[3]
                                 \/ t[3] = u[3] /\ t[1] < u[1]
                                 \/ t[3] = u[3] /\ t[1] = u[1] /\ t[2] <= u[2]
                      i == best[1]
                      j == best[2]
                      k == best[3]
                  IN  k + BlockCount(SubSeq(a, 1, i - 1), SubSeq(b, 1, j - 1))
                        + BlockCount(SubSeq(a, i + k, Len(a)), SubSeq(b, j + k, Len(b)))

\* number of matched characters M of the sequence matcher in use
MatchCount(a, b) ==
    IF SequenceMatcher = "difflib" THEN BlockCount(a, b) ELSE LcsCount(a, b)

\* int(round(x)) for x = n/d, Python 3 rounding (half to even)
RoundDiv(n, d) ==
    LET q == n \div d
        r == n % d
    IN  IF 2 * r > d THEN q + 1
        ELSE IF 2 * r < d THEN q
        ELSE q + (q % 2)

\* fuzz.ratio(s1, s2): 0 for an empty argument, else
\* int(round(100 * 2*M / (len(s1) + len(s2))))
FuzzRatio(s1, s2) ==
    IF s1 = << >> \/ s2 = << >> THEN 0
    ELSE RoundDiv(200 * MatchCount(s1, s2), Len(s1) + Len(s2))

(* ------------------------------------------------------------------ *)
(* pandas.DataFrame                                                     *)
(* A frame is its column set, its index labels and its rows, both       *)
(* sequences in row order; positions and labels count from 0 as in      *)
(* Python, so the row at position i is rows[i + 1].                     *)
(* ------------------------------------------------------------------ *)
RECURSIVE SeqUnionDomains(_)
SeqUnionDomains(data) ==
    IF data = << >> THEN {}
    ELSE (DOMAIN Head(data)) \cup SeqUnionDomains(Tail(data))

\* pd.DataFrame(data): the columns are the union of the keys, a key a
\* record lacks is NaN, and a column holding nothing but None and NaN,
\* with at least one NaN, is converted to float, which turns its None
\* into NaN
DataFrame(data) ==
    LET cols == SeqUnionDomains(data)
        HasObject(c) == \E i \in 1..Len(data) :
                           c \in DOMAIN data[i] /\ ~IsNull(data[i][c])
        HasNaN(c) == \E i \in 1..Len(data) :
                        c \notin DOMAIN data[i] \/ data[i][c] = NaN
        Cell(rec, c) ==
            IF c \notin DOMAIN rec THEN NaN
            ELSE IF rec[c] = PyNone /\ ~HasObject(c) /\ HasNaN(c) THEN NaN
            ELSE rec[c]
    IN  [columns |-> cols,
         index   |-> [i \in 1..Len(data) |-> i - 1],
         rows    |-> [i \in 1..Len(data) |-> [c \in cols |-> Cell(data[i], c)]]]

\* len(df)
DfLen(df) == Len(df.rows)

\* df.iloc[i]
Iloc(df, i) == df.rows[i + 1]

\* df.index[i]
LabelAt(df, i) == df.index[i + 1]

\* the rows of df at the positions of keep (ascending), labels kept
RECURSIVE SelectPositions(_, _, _)
SelectPositions(df, keep, i) ==
    IF i >= DfLen(df) THEN [columns |-> df.columns, index |-> << >>, rows |-> << >>]
    ELSE LET rest == SelectPositions(df, keep, i + 1)
         IN  IF i \in keep
             THEN [columns |-> df.columns,
                   index   |-> <<LabelAt(df, i)>> \o rest.index,
                   rows    |-> <<Iloc(df, i)>> \o rest.rows]
             ELSE rest

\* two rows are duplicates when every column agrees, nulls agreeing with nulls
RowsDuplicate(r1, r2) ==
    \A c \in DOMAIN r1 : r1[c] = r2[c] \/ (IsNull(r1[c]) /\ IsNull(r2[c]))

\* df.drop_duplicates(): keep the first of each group of equal rows; the
\* survivors keep their labels
drop_duplicates(df) ==
    SelectPositions(df,
        {i \in 0..(DfLen(df) - 1) :
            ~\E h \in 0..(i - 1) : RowsDuplicate(Iloc(df, h), Iloc(df, i))},
        0)

\* duplicated() hashes the cells of every column: a list in a non-empty
\* frame makes drop_duplicates raise TypeError
DropDuplicatesRaises(df) ==
    \E i \in 0..(DfLen(df) - 1) : \E c \in df.columns : Unhashable(Iloc(df, i)[c])

\* df.drop(labels): remove the rows carrying one of the labels
DfDrop(df, labels) ==
    SelectPositions(df,
        {i \in 0..(DfLen(df) - 1) : LabelAt(df, i) \notin labels}, 0)

\* df.to_dict('records')
ToDictRecords(df) == df.rows

(* ------------------------------------------------------------------ *)
(* ZinggClient._calculate_record_similarity                             *)
(* ------------------------------------------------------------------ *)
RECURSIVE SumSeq(_)
SumSeq(xs) == IF xs = << >> THEN 0 ELSE Head(xs) + SumSeq(Tail(xs))

RECURSIVE Gcd(_, _)
Gcd(a, b) == IF b = 0 THEN a ELSE Gcd(b, a % b)

\* np.mean of a non-empty list of percentages, as a reduced fraction
Mean(xs) ==
    LET s == SumSeq(xs)
        n == Len(xs)
        g == Gcd(s, n)
    IN  FloatV(s \div g, n \div g)

\* the list `similarities` built by the loop over fields, in field order
RECURSIVE FieldSimilarities(_, _, _)
FieldSimilarities(record1, record2, fields) ==
    IF fields = << >> THEN << >>
    ELSE LET field == Head(fields)
             rest  == FieldSimilarities(record1, record2, Tail(fields))
         IN  IF field \in DOMAIN record1 /\ field \in DOMAIN record2
             THEN LET val1 == Lower(Strip(PyStr(record1[field])))
                      val2 == Lower(Strip(PyStr(record2[field])))
                  IN  IF val1 # << >> /\ val2 # << >>
                      THEN <<FuzzRatio(val1, val2)>> \o rest
                      ELSE rest
             ELSE rest

_calculate_record_similarity(record1, record2, fields) ==
    LET similarities == FieldSimilarities(record1, record2, fields)
    IN  IF similarities # << >> THEN Mean(similarities) ELSE FloatV(0, 1)

\* variant: strict comparison
ScoreGT(score, threshold) == score.pct > threshold * score.den

\* variant: the comparison is turned round
ScoreLE(score, threshold) == score.pct <= threshold * score.den

\* similarity_score >= threshold, threshold in percent
ScoreGE(score, threshold) == score.pct >= threshold * score.den

\* dict.get(key, default) on a configuration
ConfigGet(config, key, default) ==
    IF key \in DOMAIN config THEN config[key] ELSE default

(* ------------------------------------------------------------------ *)
(* ZinggClient._deduplicate_dataframe                                   *)
(* ------------------------------------------------------------------ *)
DefaultDedupThreshold == 90

\* the inner loop "for j in range(i + 1, len(df))" from j on
RECURSIVE DedupInner(_, _, _, _, _, _)
DedupInner(df, fields, threshold, i, j, to_remove) ==
    IF j >= DfLen(df) THEN to_remove
    ELSE IF j \in to_remove
         THEN DedupInner(df, fields, threshold, i, j + 1, to_remove)
         ELSE IF ScoreGE(_calculate_record_similarity(Iloc(df, i), Iloc(df, j), fields),
                         threshold)
              THEN DedupInner(df, fields, threshold, i, j + 1, to_remove \cup {j})
              ELSE DedupInner(df, fields, threshold, i, j + 1, to_remove)

\* variant: the outer loop lacks "if i in to_remove: continue", so a row
\* marked for removal still removes the rows near it
RECURSIVE DedupOuter_unskipped(_, _, _, _, _)
DedupOuter_unskipped(df, fields, threshold, i, to_remove) ==
    IF i >= DfLen(df) THEN to_remove
    ELSE DedupOuter_unskipped(df, fields, threshold, i + 1,
                              DedupInner(df, fields, threshold, i, i + 1, to_remove))

\* the outer loop "for i in range(len(df))" from i on
RECURSIVE DedupOuter(_, _, _, _, _)
DedupOuter(df, fields, threshold, i, to_remove) ==
    IF i >= DfLen(df) THEN to_remove
    ELSE IF i \in to_remove
         THEN DedupOuter(df, fields, threshold, i + 1, to_remove)
         ELSE DedupOuter(df, fields, threshold, i + 1,
                         DedupInner(df, fields, threshold, i, i + 1, to_remove))

\* variant: the positions are handed to drop as if they were labels
_deduplicate_dataframe_by_position(df0, config) ==
    LET df == drop_duplicates(df0)
        similarity_fields == ConfigGet(config, "similarity_fields", << >>)
        threshold == ConfigGet(config, "similarity_threshold", DefaultDedupThreshold)
    IN  IF similarity_fields # << >>
        THEN DfDrop(df, DedupOuter(df, similarity_fields, threshold, 0, {}))
        ELSE df

_deduplicate_dataframe(df0, config) ==
    LET df == drop_duplicates(df0)
        similarity_fields == ConfigGet(config, "similarity_fields", << >>)
        threshold == ConfigGet(config, "similarity_threshold", DefaultDedupThreshold)
    IN  IF similarity_fields # << >>
        THEN LET to_remove == DedupOuter(df, similarity_fields, threshold, 0, {})
             IN  DfDrop(df, {LabelAt(df, p) : p \in to_remove})
        ELSE df

(* ------------------------------------------------------------------ *)
(* ZinggClient._find_entity_matches                                     *)
(* ------------------------------------------------------------------ *)
\* Series.get("id", default): the cell when the frame has an id column
SeriesGet(row, key, default) == IF key \in DOMAIN row THEN row[key] ELSE default

MatchEntry(df, i, j, similarity_score, matching_fields) ==
    [entity_1_index   |-> i,
     entity_2_index   |-> j,
     entity_1_id      |-> SeriesGet(Iloc(df, i), "id", StrV(StrOfInt(i))),
     entity_2_id      |-> SeriesGet(Iloc(df, j), "id", StrV(StrOfInt(j))),
     similarity_score |-> similarity_score,
     matching_fields  |-> matching_fields]

\* the inner loop "for j in range(i + 1, len(df))" from j on
RECURSIVE MatchInner(_, _, _, _, _)
MatchInner(df, fields, threshold, i, j) ==
    IF j >= DfLen(df) THEN << >>
    ELSE LET similarity_score ==
                 _calculate_record_similarity(Iloc(df, i), Iloc(df, j), fields)
             rest == MatchInner(df, fields, threshold, i, j + 1)
         IN  IF ScoreGE(similarity_score, threshold)
             THEN <<MatchEntry(df, i, j, similarity_score, fields)>> \o rest
             ELSE rest

\* the outer loop "for i in range(len(df))" from i on
RECURSIVE MatchOuter(_, _, _, _)
MatchOuter(df, fields, threshold, i) ==
    IF i >= DfLen(df) THEN << >>
    ELSE MatchInner(df, fields, threshold, i, i + 1)
         \o MatchOuter(df, fields, threshold, i + 1)

_find_entity_matches(df, config, threshold) ==
    LET matching_fields == ConfigGet(config, "matching_fields", << >>)
    IN  IF matching_fields = << >> THEN << >>
        ELSE MatchOuter(df, matching_fields, threshold, 0)

(* ------------------------------------------------------------------ *)
(* Merge strategies                                                     *)
(* ------------------------------------------------------------------ *)
EmptyStr == StrV(<< >>)

\* dict.get(key, default)
DictGet(d, key, default) == IF key \in DOMAIN d THEN d[key] ELSE default

\* ZinggClient._merge_latest_wins
_merge_latest_wins(record1, record2) ==
    LET Overlaid(key) == key \in DOMAIN record2 /\ record2[key] # PyNone
                         /\ record2[key] # EmptyStr
    IN  [key \in (DOMAIN record1) \cup {x \in DOMAIN record2 : Overlaid(x)} |->
            IF Overlaid(key) THEN record2[key] ELSE record1[key]]

\* ZinggClient._merge_first_wins
_merge_first_wins(record1, record2) ==
    [key \in (DOMAIN record1) \cup (DOMAIN record2) |->
        IF key \in DOMAIN record2
           /\ (key \notin DOMAIN record1 \/ record1[key] = PyNone
               \/ record1[key] = EmptyStr)
        THEN record2[key]
        ELSE record1[key]]

\* ZinggClient._merge_concatenate
_merge_concatenate(record1, record2) ==
    [key \in (DOMAIN record1) \cup (DOMAIN record2) |->
        LET val1 == DictGet(record1, key, EmptyStr)
            val2 == DictGet(record2, key, EmptyStr)
        IN  IF Truthy(val1) /\ Truthy(val2) THEN FormatJoin(val1, val2)
            ELSE IF Truthy(val1) THEN val1
            ELSE val2]

\* variant: an unknown strategy falls back to latest_wins
ApplyStrategy_fallback_latest(merge_strategy, record1, record2) ==
    CASE merge_strategy = "first_wins"  -> _merge_first_wins(record1, record2)
      [] merge_strategy = "concatenate" -> _merge_concatenate(record1, record2)
      [] OTHER                          -> _merge_latest_wins(record1, record2)

\* the strategy dispatch of _merge_matched_entities
ApplyStrategy(merge_strategy, record1, record2) ==
    CASE merge_strategy = "latest_wins" -> _merge_latest_wins(record1, record2)
      [] merge_strategy = "first_wins"  -> _merge_first_wins(record1, record2)
      [] merge_strategy = "concatenate" -> _merge_concatenate(record1, record2)
      [] OTHER                          -> record1

\* d[key] = value on a dict
DictSet(d, key, value) ==
    [x \in (DOMAIN d) \cup {key} |-> IF x = key THEN value ELSE d[x]]

\* the record appended for a merged pair
MergedRecord(df, match, merge_strategy) ==
    LET record1 == Iloc(df, match.entity_1_index)
        record2 == Iloc(df, match.entity_2_index)
        merged  == ApplyStrategy(merge_strategy, record1, record2)
        with_from == DictSet(merged, "_merged_from",
                        ListV(<<DictGet(record1, "id", PyNone),
                                DictGet(record2, "id", PyNone)>>))
    IN  DictSet(with_from, "_similarity_score", match.similarity_score)

\* variant: only the first index of the pair is looked up
MatchSkipped_first_only(match, processed) ==
    match.entity_1_index \in processed
\* variant: "and" for "or", a match is skipped only when both rows are taken
MatchSkipped_both(match, processed) ==
    match.entity_1_index \in processed /\ match.entity_2_index \in processed

\* whether the loop skips a match: one of its indices is already processed
MatchSkipped(match, processed) ==
    match.entity_1_index \in processed \/ match.entity_2_index \in processed
\* variant: the final loop appends every row, merged or not
UnmatchedPositions_every_row(df, processed) ==
    0..(DfLen(df) - 1)

\* the positions of the rows the final loop appends: those whose index
\* LABEL is not in processed_indices
UnmatchedPositions(df, processed) ==
    {p \in 0..(DfLen(df) - 1) : LabelAt(df, p) \notin processed}

RECURSIVE UnmatchedRows(_, _, _)
UnmatchedRows(df, processed, p) ==
    IF p >= DfLen(df) THEN << >>
    ELSE IF p \in UnmatchedPositions(df, processed)
         THEN <<Iloc(df, p)>> \o UnmatchedRows(df, processed, p + 1)
         ELSE UnmatchedRows(df, processed, p + 1)

RECURSIVE UnmatchedSources(_, _, _)
UnmatchedSources(df, processed, p) ==
    IF p >= DfLen(df) THEN << >>
    ELSE IF p \in UnmatchedPositions(df, processed)
         THEN <<{p}>> \o UnmatchedSources(df, processed, p + 1)
         ELSE UnmatchedSources(df, processed, p + 1)

(* ------------------------------------------------------------------ *)
(* ZinggClient._calculate_confidence_scores                             *)
(* ------------------------------------------------------------------ *)
IntV(n) == [tag |-> "int", s |-> << >>, items |-> << >>, pct |-> n, den |-> 1]
\* the square root of the fraction p/d (numpy.std), kept symbolic
SqrtV(p, d) == [tag |-> "sqrt", s |-> << >>, items |-> << >>, pct |-> p, den |-> d]

HighBand == 90
MediumBand == 70

ScoreLT(a, b) == a.pct * b.den < b.pct * a.den

RECURSIVE MinScore(_)
MinScore(scores) ==
    IF Len(scores) = 1 THEN scores[1]
    ELSE LET m == MinScore(Tail(scores))
         IN  IF ScoreLT(m, scores[1]) THEN m ELSE scores[1]

RECURSIVE MaxScore(_)
MaxScore(scores) ==
    IF Len(scores) = 1 THEN scores[1]
    ELSE LET m == MaxScore(Tail(scores))
         IN  IF ScoreLT(scores[1], m) THEN m ELSE scores[1]

RECURSIVE DenProduct(_)
DenProduct(scores) ==
    IF scores = << >> THEN 1 ELSE Head(scores).den * DenProduct(Tail(scores))

\* np.mean and np.std of the scores, over the common denominator D
ScoreMean(scores) ==
    LET D == DenProduct(scores)
        S == SumSeq([i \in 1..Len(scores) |-> scores[i].pct * (D \div scores[i].den)])
        g == Gcd(S, Len(scores) * D)
    IN  FloatV(S \div g, (Len(scores) * D) \div g)

ScoreStd(scores) ==
    LET D == DenProduct(scores)
        n == Len(scores)
        x == [i \in 1..n |-> scores[i].pct * (D \div scores[i].den)]
        S == SumSeq(x)
        Q == SumSeq([i \in 1..n |-> x[i] * x[i]])
        num == n * Q - S * S
        den == n * n * D * D
        g == Gcd(num, den)
    IN  SqrtV(num \div g, den \div g)

IsHigh(s)   == s.pct > HighBand * s.den

\* variant: the upper end of the medium band is left out
IsMedium_open_above(s) == MediumBand * s.den <= s.pct /\ s.pct < HighBand * s.den

IsMedium(s) == MediumBand * s.den <= s.pct /\ s.pct <= HighBand * s.den
IsLow(s)    == s.pct < MediumBand * s.den

HighCount(scores)   == Cardinality({i \in 1..Len(scores) : IsHigh(scores[i])})
MediumCount(scores) == Cardinality({i \in 1..Len(scores) : IsMedium(scores[i])})
LowCount(scores)    == Cardinality({i \in 1..Len(scores) : IsLow(scores[i])})

EmptyDict == [x \in {} |-> 0]

\* variant: an empty match list gives a summary of zeros
_calculate_confidence_scores_zeroed(matches) ==
    IF matches = << >>
    THEN [average_confidence      |-> FloatV(0, 1),
          min_confidence          |-> FloatV(0, 1),
          max_confidence          |-> FloatV(0, 1),
          std_confidence          |-> FloatV(0, 1),
          high_confidence_count   |-> IntV(0),
          medium_confidence_count |-> IntV(0),
          low_confidence_count    |-> IntV(0)]
    ELSE LET scores == [i \in 1..Len(matches) |-> matches[i].similarity_score]
         IN  [average_confidence      |-> ScoreMean(scores),
              min_confidence          |-> MinScore(scores),
              max_confidence          |-> MaxScore(scores),
              std_confidence          |-> ScoreStd(scores),
              high_confidence_count   |-> IntV(HighCount(scores)),
              medium_confidence_count |-> IntV(MediumCount(scores)),
              low_confidence_count    |-> IntV(LowCount(scores))]

_calculate_confidence_scores(matches) ==
    IF matches = << >> THEN EmptyDict
    ELSE LET scores == [i \in 1..Len(matches) |-> matches[i].similarity_score]
         IN  [average_confidence      |-> ScoreMean(scores),
              min_confidence          |-> MinScore(scores),
              max_confidence          |-> MaxScore(scores),
              std_confidence          |-> ScoreStd(scores),
              high_confidence_count   |-> IntV(HighCount(scores)),
              medium_confidence_count |-> IntV(MediumCount(scores)),
              low_confidence_count    |-> IntV(LowCount(scores))]

(* ------------------------------------------------------------------ *)
(* Job history                                                          *)
(* ------------------------------------------------------------------ *)
\* variant: history[offset:limit], the limit taken for the end of the slice
get_reconciliation_history_to_limit(hist, limit, offset) ==
    SubSeq(hist, offset + 1, IF limit <= Len(hist) THEN limit ELSE Len(hist))

\* ZinggClient.get_reconciliation_history: history[offset:offset+limit]
\* for non-negative offset and limit
get_reconciliation_history(hist, limit, offset) ==
    SubSeq(hist, offset + 1,
           IF offset + limit <= Len(hist) THEN offset + limit ELSE Len(hist))

\* ZinggClient.get_reconciliation_by_id: the first entry with the id, or None
NotFound == [reconciliation_id |-> 0]
\* variant: the id is taken for the place of the entry in the list
get_reconciliation_by_position(hist, reconciliation_id) ==
    IF reconciliation_id \in 1..Len(hist) THEN hist[reconciliation_id] ELSE NotFound

get_reconciliation_by_id(hist, reconciliation_id) ==
    LET hits == {i \in 1..Len(hist) : hist[i].reconciliation_id = reconciliation_id}
    IN  IF hits = {} THEN NotFound
        ELSE hist[CHOOSE i \in hits : \A h \in hits : i <= h]

(* ------------------------------------------------------------------ *)
(* Requests                                                             *)
(* ------------------------------------------------------------------ *)
Str1(a) == StrV(<<a>>)
Str2(a, b) == StrV(<<a, b>>)

RecA == [id |-> Str1("1"), name |-> Str1("a"), email |-> Str1("x")]
RecB == [id |-> Str1("2"), name |-> Str2("A", " "), email |-> EmptyStr]
RecC == [id |-> Str1("3"), name |-> Str2("a", "b")]
RecD == [name |-> Str1("b"), email |-> PyNone]
RecE == [name |-> Str2("a", "b"), email |-> Str1(" ")]

RecordPool == {RecA, RecB, RecC, RecD, RecE}

DataLists == UNION {[1..n -> RecordPool] : n \in 0..MaxRecords}

NameOnly == <<"name">>
NameEmail == <<"name", "email">>
EmailOnly == <<"email">>

\* the matching part and the dedup part of a matching_config; a key may be absent
MatchParts == {EmptyDict, [matching_fields |-> NameOnly], [matching_fields |-> NameEmail]}
DedupParts == {EmptyDict,
               [similarity_fields |-> NameOnly],
               [similarity_fields |-> NameOnly, similarity_threshold |-> 67]}

Merge2(d1, d2) ==
    [key \in (DOMAIN d1) \cup (DOMAIN d2) |-> IF key \in DOMAIN d1 THEN d1[key] ELSE d2[key]]

Configs == {Merge2(m, d) : m \in MatchParts, d \in DedupParts}

Thresholds == {50, 67}

KnownStrategies == {"latest_wins", "first_wins", "concatenate"}
Strategies == KnownStrategies \cup {"newest_first"}

ReconcileRequests ==
    [data : DataLists, matching_config : Configs, entity_type : {"customer"},
     threshold : Thresholds, deduplication : BOOLEAN, merge_strategy : Strategies]

MatchRequests ==
    [data : DataLists, matching_config : MatchParts, threshold : Thresholds]

DedupRequests ==
    [data : DataLists, config : DedupParts]

(* ------------------------------------------------------------------ *)
(* State                                                                *)
(* ------------------------------------------------------------------ *)
\* (with SequenceMatcher, declared with fuzz.ratio above)
VARIABLES
    history,              \* ZinggClient.reconciliation_history
    issued,               \* number of uuid4 values drawn so far
    pc,                   \* position of the running handler, "idle" when none
    op,                   \* the handler that is running
    req,                  \* its request
    reconciliation_id,    \* locals of reconcile_entities
    df,
    original_records,
    deduplicated_records,
    matches,
    k,                    \* locals of _merge_matched_entities: next match
    merged_records,
    processed_indices,
    sources,              \* for each element of merged_records, the positions
                          \* in df of the rows it was built from (bookkeeping
                          \* of the model, not a variable of the program)
    response,             \* what the handler returns
    log,                  \* the reconcile calls a caller has seen return: the
                          \* request and what came back (bookkeeping of the
                          \* model, not a variable of the program)
    suspended             \* the reconcile_entities coroutines the event loop
                          \* holds parked at an await, each with its locals

vars == <<history, issued, pc, op, req, reconciliation_id, df, original_records,
          deduplicated_records, matches, k, merged_records, processed_indices,
          sources, response, log, SequenceMatcher, suspended>>

locals == <<reconciliation_id, df, original_records, deduplicated_records,
            matches, k, merged_records, processed_indices, sources>>

NoRequest == EmptyDict
NoResponse == [status |-> "none"]
EmptyFrame == DataFrame(<< >>)

Init ==
    /\ history = << >>
    /\ issued = 0
    /\ pc = "idle"
    /\ op = "none"
    /\ req = NoRequest
    /\ reconciliation_id = 0
    /\ df = EmptyFrame
    /\ original_records = 0
    /\ deduplicated_records = 0
    /\ matches = << >>
    /\ k = 0
    /\ merged_records = << >>
    /\ processed_indices = {}
    /\ sources = << >>
    /\ response = NoResponse
    /\ log = << >>
    /\ suspended = {}
    /\ SequenceMatcher \in SequenceMatchers

(* ------------------------------------------------------------------ *)
(* POST /reconcile: ZinggClient.reconcile_entities, step by step        *)
(* ------------------------------------------------------------------ *)
\* uuid4 and the frame built from the request
reconcile_entities_start(request) ==
    /\ pc = "idle"
    /\ op' = "reconcile"
    /\ req' = request
    /\ issued' = issued + 1
    /\ reconciliation_id' = issued + 1
    /\ df' = DataFrame(request.data)
    /\ original_records' = Len(request.data)
    /\ pc' = "dedup"
    /\ UNCHANGED <<history, deduplicated_records, matches, k, merged_records,
                   processed_indices, sources, response, log, SequenceMatcher, suspended>>

\* step 1: deduplication when asked for
reconcile_entities_dedup ==
    /\ pc = "dedup"
    /\ ~(req.deduplication /\ DropDuplicatesRaises(df))
    /\ df' = IF req.deduplication
             THEN _deduplicate_dataframe(df, req.matching_config)
             ELSE df
    /\ deduplicated_records' = DfLen(df')
    /\ pc' = "match"
    /\ UNCHANGED <<history, issued, op, req, reconciliation_id, original_records,
                   matches, k, merged_records, processed_indices, sources, response,
                   log, SequenceMatcher, suspended>>

\* variant: the handler writes a failed entry before it re-raises
reconcile_entities_except_records_failed ==
    /\ pc = "dedup"
    /\ req.deduplication /\ DropDuplicatesRaises(df)
    /\ history' = Append(history,
                         [reconciliation_id    |-> reconciliation_id,
                          entity_type          |-> req.entity_type,
                          original_records     |-> original_records,
                          deduplicated_records |-> 0,
                          matched_pairs        |-> 0,
                          status               |-> "failed"])
    /\ response' = [status |-> "error"]
    /\ pc' = "done"
    /\ UNCHANGED <<issued, op, req, locals, log, SequenceMatcher, suspended>>

\* an exception inside the try block (here the TypeError of step 1): it
\* is logged and raised again, reconcile_data answers with HTTP 500, and
\* nothing is written to the history
reconcile_entities_except ==
    /\ pc = "dedup"
    /\ req.deduplication /\ DropDuplicatesRaises(df)
    /\ response' = [status |-> "error"]
    /\ pc' = "done"
    /\ UNCHANGED <<history, issued, op, req, locals, log, SequenceMatcher, suspended>>

\* step 2: matching
reconcile_entities_match ==
    /\ pc = "match"
    /\ matches' = _find_entity_matches(df, req.matching_config, req.threshold)
    /\ k' = 0
    /\ merged_records' = << >>
    /\ processed_indices' = {}
    /\ sources' = << >>
    /\ pc' = "merge"
    /\ UNCHANGED <<history, issued, op, req, reconciliation_id, df, original_records,
                   deduplicated_records, response, log, SequenceMatcher, suspended>>

\* step 3: one iteration of "for match in matches"
_merge_matched_entities_step ==
    /\ pc = "merge"
    /\ k < Len(matches)
    /\ LET match == matches[k + 1]
       IN  IF MatchSkipped(match, processed_indices)
           THEN UNCHANGED <<merged_records, processed_indices, sources>>
           ELSE /\ merged_records' =
                       Append(merged_records, MergedRecord(df, match, req.merge_strategy))
                /\ processed_indices' = processed_indices
                       \cup {match.entity_1_index, match.entity_2_index}
                /\ sources' = Append(sources,
                                     {match.entity_1_index, match.entity_2_index})
    /\ k' = k + 1
    /\ UNCHANGED <<history, issued, pc, op, req, reconciliation_id, df,
                   original_records, deduplicated_records, matches, response, log,
                   SequenceMatcher, suspended>>

\* step 3, end: "for i, row in df.iterrows()" appends the unmatched rows
_merge_matched_entities_rest ==
    /\ pc = "merge"
    /\ k = Len(matches)
    /\ merged_records' = merged_records \o UnmatchedRows(df, processed_indices, 0)
    /\ sources' = sources \o UnmatchedSources(df, processed_indices, 0)
    /\ pc' = "finish"
    /\ UNCHANGED <<history, issued, op, req, reconciliation_id, df, original_records,
                   deduplicated_records, matches, k, processed_indices, response, log,
                   SequenceMatcher, suspended>>

HistoryEntry ==
    [reconciliation_id    |-> reconciliation_id,
     entity_type          |-> req.entity_type,
     original_records     |-> original_records,
     deduplicated_records |-> deduplicated_records,
     matched_pairs        |-> Len(matches),
     status               |-> "completed"]

\* variant: the pair counter lives on the client and is never reset, so
\* the count returned runs over the earlier jobs as well
reconcile_entities_finish_running_count ==
    /\ pc = "finish"
    /\ history' = Append(history, HistoryEntry)
    /\ response' = [status               |-> "completed",
                    reconciliation_id    |-> reconciliation_id,
                    original_records     |-> original_records,
                    deduplicated_records |-> deduplicated_records,
                    matched_pairs        |->
                        Len(matches)
                        + SumSeq([x \in 1..Len(history) |-> history[x].matched_pairs]),
                    merged_records       |-> merged_records,
                    confidence_scores    |-> _calculate_confidence_scores(matches)]
    /\ pc' = "done"
    /\ UNCHANGED <<issued, op, req, locals, log, SequenceMatcher, suspended>>
\* variant: the newest entry goes to the front of the list
reconcile_entities_finish_newest_first ==
    /\ pc = "finish"
    /\ history' = <<HistoryEntry>> \o history
    /\ response' = [status               |-> "completed",
                    reconciliation_id    |-> reconciliation_id,
                    original_records     |-> original_records,
                    deduplicated_records |-> deduplicated_records,
                    matched_pairs        |-> Len(matches),
                    merged_records       |-> merged_records,
                    confidence_scores    |-> _calculate_confidence_scores(matches)]
    /\ pc' = "done"
    /\ UNCHANGED <<issued, op, req, locals, log, SequenceMatcher, suspended>>
\* variant: the entry is written only when no other call is under way
reconcile_entities_finish_unless_busy ==
    /\ pc = "finish"
    /\ history' = IF suspended = {} THEN Append(history, HistoryEntry) ELSE history
    /\ response' = [status               |-> "completed",
                    reconciliation_id    |-> reconciliation_id,
                    original_records     |-> original_records,
                    deduplicated_records |-> deduplicated_records,
                    matched_pairs        |-> Len(matches),
                    merged_records       |-> merged_records,
                    confidence_scores    |-> _calculate_confidence_scores(matches)]
    /\ pc' = "done"
    /\ UNCHANGED <<issued, op, req, locals, log, SequenceMatcher, suspended>>

\* confidence scores, the history entry and the result
reconcile_entities_finish ==
    /\ pc = "finish"
    /\ history' = Append(history, HistoryEntry)
    /\ response' = [status               |-> "completed",
                    reconciliation_id    |-> reconciliation_id,
                    original_records     |-> original_records,
                    deduplicated_records |-> deduplicated_records,
                    matched_pairs        |-> Len(matches),
                    merged_records       |-> merged_records,
                    confidence_scores    |-> _calculate_confidence_scores(matches)]
    /\ pc' = "done"
    /\ UNCHANGED <<issued, op, req, locals, log, SequenceMatcher, suspended>>

(* ------------------------------------------------------------------ *)
(* The other handlers                                                   *)
(* ------------------------------------------------------------------ *)
\* POST /match: ZinggClient.find_matches
find_matches(request) ==
    /\ pc = "idle"
    /\ op' = "find_matches"
    /\ req' = request
    /\ df' = DataFrame(request.data)
    /\ matches' = _find_entity_matches(df', request.matching_config, request.threshold)
    /\ response' = [status |-> "ok", matches |-> matches']
    /\ pc' = "done"
    /\ UNCHANGED <<history, issued, reconciliation_id, original_records,
                   deduplicated_records, k, merged_records, processed_indices, sources,
                   log, SequenceMatcher, suspended>>

\* POST /deduplicate: ZinggClient.deduplicate_data
deduplicate_data(request) ==
    /\ pc = "idle"
    /\ op' = "deduplicate"
    /\ req' = request
    /\ LET frame == DataFrame(request.data)
       IN  IF DropDuplicatesRaises(frame)
           THEN /\ df' = frame
                /\ response' = [status |-> "error"]
           ELSE /\ df' = _deduplicate_dataframe(frame, request.config)
                /\ response' = [status |-> "ok", records |-> ToDictRecords(df')]
    /\ pc' = "done"
    /\ UNCHANGED <<history, issued, reconciliation_id, original_records,
                   deduplicated_records, matches, k, merged_records,
                   processed_indices, sources, log, SequenceMatcher, suspended>>

\* GET /reconciliations/{id}: 404 when the lookup returns None
get_reconciliation(id) ==
    /\ pc = "idle"
    /\ op' = "get_job"
    /\ req' = [reconciliation_id |-> id]
    /\ LET found == get_reconciliation_by_id(history, id)
       IN  response' = IF found = NotFound
                       THEN [status |-> "not_found"]
                       ELSE [status |-> "ok", job |-> found]
    /\ pc' = "done"
    /\ UNCHANGED <<history, issued, locals, log, SequenceMatcher, suspended>>

\* GET /reconciliations
list_reconciliations(limit, offset) ==
    /\ pc = "idle"
    /\ op' = "list_jobs"
    /\ req' = [limit |-> limit, offset |-> offset]
    /\ response' = [status |-> "ok",
                    jobs |-> get_reconciliation_history(history, limit, offset)]
    /\ pc' = "done"
    /\ UNCHANGED <<history, issued, locals, log, SequenceMatcher, suspended>>

\* the handler has returned; its locals are gone (what the caller keeps of
\* the call is added by the specification)
Return ==
    /\ pc = "done"
    /\ pc' = "idle"
    /\ op' = "none"
    /\ req' = NoRequest
    /\ reconciliation_id' = 0
    /\ df' = EmptyFrame
    /\ original_records' = 0
    /\ deduplicated_records' = 0
    /\ matches' = << >>
    /\ k' = 0
    /\ merged_records' = << >>
    /\ processed_indices' = {}
    /\ sources' = << >>
    /\ response' = NoResponse
    /\ UNCHANGED <<history, issued, SequenceMatcher, suspended>>

(* ------------------------------------------------------------------ *)
(* Specification: the service from its start through one reconcile      *)
(* call, with the other handlers callable whenever it is idle           *)
(* ------------------------------------------------------------------ *)
MaxPage == 2

Next ==
    \/ (pc = "idle" /\ history = << >>
        /\ \E request \in ReconcileRequests : reconcile_entities_start(request))
    \/ reconcile_entities_dedup
    \/ reconcile_entities_match
    \/ _merge_matched_entities_step
    \/ _merge_matched_entities_rest
    \/ reconcile_entities_finish
    \/ (pc = "idle" /\ \E request \in MatchRequests : find_matches(request))
    \/ (pc = "idle" /\ \E request \in DedupRequests : deduplicate_data(request))
    \/ (pc = "idle" /\ \E id \in 0..(issued + 1) : get_reconciliation(id))
    \/ (pc = "idle" /\ \E limit \in 0..MaxPage, offset \in 0..MaxPage :
                          list_reconciliations(limit, offset))
    \/ (Return /\ UNCHANGED log)

\* On the strings of these requests the two bindings of SequenceMatcher
\* count the same matched characters (BindingsAgree below holds), so the
\* specification follows one of them.
InitOneBinding == Init /\ SequenceMatcher = "StringMatcher"

Spec == InitOneBinding /\ [][Next]_vars

\* every two cells of a column of the submitted frame, compared in the
\* order the loops compare them, match the same number of characters
\* under either binding
BindingsAgree ==
    "data" \in DOMAIN req =>
        LET frame == DataFrame(req.data)
            norm(v) == Lower(Strip(PyStr(v)))
        IN  \A i, j \in 0..(DfLen(frame) - 1) : \A c \in frame.columns :
                i < j => LcsCount(norm(Iloc(frame, i)[c]), norm(Iloc(frame, j)[c]))
                         = BlockCount(norm(Iloc(frame, i)[c]), norm(Iloc(frame, j)[c]))

(* ------------------------------------------------------------------ *)
(* Specification: several reconcile calls, one after the other, some    *)
(* of which fail, drawn from a small set of requests; the caller keeps  *)
(* every request with what came back                                    *)
(* ------------------------------------------------------------------ *)
MaxCalls == 2

\* a record with a list for a value
RecL == [name |-> ListV(<<Str1("a")>>)]

JobData == {<< >>, <<RecA, RecB, RecC>>, <<RecL, RecC>>}

JobConfig == [matching_fields |-> NameOnly, similarity_fields |-> NameOnly]

JobRequests ==
    [data : JobData, matching_config : {JobConfig}, entity_type : {"customer"},
     threshold : {50}, deduplication : BOOLEAN,
     merge_strategy : {"latest_wins", "concatenate"}]

JobMatchRequests ==
    [data : JobData, matching_config : {JobConfig}, threshold : {50}]

JobDedupRequests ==
    [data : JobData, config : {JobConfig}]

\* what the caller of a reconcile call keeps of it
Observed == [req |-> req, response |-> response]

NextJobs ==
    \/ (pc = "idle" /\ issued < MaxCalls
        /\ \E request \in JobRequests : reconcile_entities_start(request))
    \/ reconcile_entities_dedup
    \/ reconcile_entities_except
    \/ reconcile_entities_match
    \/ _merge_matched_entities_step
    \/ _merge_matched_entities_rest
    \/ reconcile_entities_finish
    \/ (pc = "idle" /\ \E request \in JobMatchRequests : find_matches(request))
    \/ (pc = "idle" /\ \E request \in JobDedupRequests : deduplicate_data(request))
    \/ (pc = "idle" /\ \E id \in 0..(issued + 1) : get_reconciliation(id))
    \/ (pc = "idle" /\ \E limit \in 0..MaxPage, offset \in 0..MaxPage :
                          list_reconciliations(limit, offset))
    \/ (Return /\ log' = IF op = "reconcile" THEN Append(log, Observed) ELSE log)

SpecJobs == Init /\ [][NextJobs]_vars

(* ------------------------------------------------------------------ *)
(* Specification: deduplicate calls alone, over records that differ     *)
(* only in their id, or only in carrying a null field against lacking   *)
(* the field                                                            *)
(* ------------------------------------------------------------------ *)
(* ------------------------------------------------------------------ *)
(* Specification: requests served concurrently by the one event loop    *)
(* of uvicorn.run(app) over the one ZinggClient of the module.  A        *)
(* coroutine can hand the loop over only at an await; every await of    *)
(* reconcile_entities and of the coroutines it calls is taken for such  *)
(* a point (none of them reaches a future that suspends, so the loop    *)
(* the service runs on switches at a subset of these points), and the   *)
(* loop then runs any other request or resumes any parked coroutine.    *)
(* ------------------------------------------------------------------ *)
\* the coroutine that is running, as the loop parks it
Context ==
    [op |-> op, req |-> req, pc |-> pc, reconciliation_id |-> reconciliation_id,
     df |-> df, original_records |-> original_records,
     deduplicated_records |-> deduplicated_records, matches |-> matches, k |-> k,
     merged_records |-> merged_records, processed_indices |-> processed_indices,
     sources |-> sources]

\* the awaits of reconcile_entities: before step 1, step 2, step 3 (and
\* each merge inside it) and the confidence scores; none lies between
\* the append to the history and the return
AwaitPoints == {"dedup", "match", "merge", "finish"}

\* the running coroutine is parked at an await and the loop is free
Suspend ==
    /\ op = "reconcile"
    /\ pc \in AwaitPoints
    /\ suspended' = suspended \cup {Context}
    /\ pc' = "idle"
    /\ op' = "none"
    /\ req' = NoRequest
    /\ reconciliation_id' = 0
    /\ df' = EmptyFrame
    /\ original_records' = 0
    /\ deduplicated_records' = 0
    /\ matches' = << >>
    /\ k' = 0
    /\ merged_records' = << >>
    /\ processed_indices' = {}
    /\ sources' = << >>
    /\ UNCHANGED <<history, issued, response, log, SequenceMatcher>>

\* the loop resumes a parked coroutine where it stopped
Resume(c) ==
    /\ pc = "idle"
    /\ c \in suspended
    /\ suspended' = suspended \ {c}
    /\ pc' = c.pc
    /\ op' = c.op
    /\ req' = c.req
    /\ reconciliation_id' = c.reconciliation_id
    /\ df' = c.df
    /\ original_records' = c.original_records
    /\ deduplicated_records' = c.deduplicated_records
    /\ matches' = c.matches
    /\ k' = c.k
    /\ merged_records' = c.merged_records
    /\ processed_indices' = c.processed_indices
    /\ sources' = c.sources
    /\ UNCHANGED <<history, issued, response, log, SequenceMatcher>>

ConcData == {<< >>, <<RecA, RecB, RecC>>, <<RecL, RecC>>}

ConcRequests ==
    [data : ConcData, matching_config : {JobConfig}, entity_type : {"customer"},
     threshold : {50}, deduplication : BOOLEAN, merge_strategy : {"latest_wins"}]

NextConc ==
    \/ (pc = "idle" /\ issued < MaxCalls
        /\ \E request \in ConcRequests : reconcile_entities_start(request))
    \/ reconcile_entities_dedup
    \/ reconcile_entities_except
    \/ reconcile_entities_match
    \/ _merge_matched_entities_step
    \/ _merge_matched_entities_rest
    \/ reconcile_entities_finish
    \/ Suspend
    \/ (pc = "idle" /\ \E c \in suspended : Resume(c))
    \/ (pc = "idle" /\ \E id \in 0..(issued + 1) : get_reconciliation(id))
    \/ (pc = "idle" /\ \E limit \in 0..MaxPage, offset \in 0..MaxPage :
                          list_reconciliations(limit, offset))
    \/ (Return /\ log' = IF op = "reconcile" THEN Append(log, Observed) ELSE log)

SpecConc == Init /\ [][NextConc]_vars

RecIdA  == [id |-> Str1("1"), name |-> Str1("a")]
RecIdB  == [id |-> Str1("2"), name |-> Str1("a")]
RecNull == [name |-> Str1("b"), email |-> PyNone]
RecBare == [name |-> Str1("b")]

DedupPool == {RecIdA, RecIdB, RecNull, RecBare}

DedupDataLists == UNION {[1..n -> DedupPool] : n \in 0..MaxRecords}

ExactDedupRequests ==
    [data : DedupDataLists, config : {EmptyDict, [similarity_fields |-> NameOnly]}]

NextDedup ==
    \/ (pc = "idle" /\ \E request \in ExactDedupRequests : deduplicate_data(request))
    \/ (Return /\ UNCHANGED log)

SpecDedup == Init /\ [][NextDedup]_vars

(* ------------------------------------------------------------------ *)
(* Specification: find-matches calls alone, over pairs of records whose *)
(* name runs over every word up to a length, under either binding of    *)
(* SequenceMatcher                                                      *)
(* ------------------------------------------------------------------ *)
MaxStrLen == 3

Alphabet == {"a", "b", "c"}

Words == UNION {[1..n -> Alphabet] : n \in 0..MaxStrLen}

\* a record whose email is null
RecNullEmail == [name |-> Str1("a"), email |-> PyNone]

ScorePool == {[name |-> StrV(w)] : w \in Words} \cup {RecNullEmail}

ScoreDataLists == [1..2 -> ScorePool]

ScoreRequests ==
    [data : ScoreDataLists,
     matching_config : {[matching_fields |-> NameOnly], [matching_fields |-> NameEmail],
                        [matching_fields |-> EmailOnly]},
     threshold : Thresholds]

NextScore ==
    \/ (pc = "idle" /\ \E request \in ScoreRequests : find_matches(request))
    \/ (Return /\ UNCHANGED log)

SpecScore == Init /\ [][NextScore]_vars

(* ------------------------------------------------------------------ *)
(* Specification: one reconcile call over records whose pairs score     *)
(* exactly 0.9, exactly 0.7, above and below                            *)
(* ------------------------------------------------------------------ *)
Str3(a, b, c) == StrV(<<a, b, c>>)

\* on name and email: BandA-BandA 1.0, BandA-BandB (1.0 + 0.8) / 2,
\* BandA-BandC (1.0 + 0.4) / 2, BandB-BandC (1.0 + 0.33) / 2
BandA == [name |-> Str2("a", "b"), email |-> Str2("a", "b")]
BandB == [name |-> Str2("a", "b"), email |-> Str3("a", "b", "c")]
BandC == [name |-> Str2("a", "b"), email |-> Str3("a", "x", "x")]

BandPool == {BandA, BandB, BandC}

BandDataLists == UNION {[1..n -> BandPool] : n \in 0..MaxRecords}

BandRequests ==
    [data : BandDataLists, matching_config : {[matching_fields |-> NameEmail]},
     entity_type : {"customer"}, threshold : {50}, deduplication : BOOLEAN,
     merge_strategy : {"latest_wins"}]

NextBands ==
    \/ (pc = "idle" /\ history = << >>
        /\ \E request \in BandRequests : reconcile_entities_start(request))
    \/ reconcile_entities_dedup
    \/ reconcile_entities_match
    \/ _merge_matched_entities_step
    \/ _merge_matched_entities_rest
    \/ reconcile_entities_finish
    \/ (Return /\ UNCHANGED log)

SpecBands == Init /\ [][NextBands]_vars

(* ------------------------------------------------------------------ *)
(* Vocabulary of the properties                                         *)
(* ------------------------------------------------------------------ *)
(* ------------------------------------------------------------------ *)
(* Specification: one reconcile call whose threshold runs from below 0  *)
(* to above 1 and whose matching_config has fields, an empty list of    *)
(* fields, or none, followed by look-ups of the job                     *)
(* ------------------------------------------------------------------ *)
\* thresholds in percent: -0.5, 0.0, 0.5, 1.0 and 1.5
ConfigThresholds == {-50, 0, 50, 100, 150}

ConfigMatchParts ==
    {EmptyDict, [matching_fields |-> << >>], [matching_fields |-> NameOnly]}

ConfigRequests ==
    [data : {<<RecA, RecC>>, <<RecA, RecD>>}, matching_config : ConfigMatchParts,
     entity_type : {"customer"}, threshold : ConfigThresholds,
     deduplication : BOOLEAN, merge_strategy : {"latest_wins"}]

NextConfig ==
    \/ (pc = "idle" /\ history = << >>
        /\ \E request \in ConfigRequests : reconcile_entities_start(request))
    \/ reconcile_entities_dedup
    \/ reconcile_entities_match
    \/ _merge_matched_entities_step
    \/ _merge_matched_entities_rest
    \/ reconcile_entities_finish
    \/ (pc = "idle" /\ \E id \in 0..(issued + 1) : get_reconciliation(id))
    \/ (Return /\ UNCHANGED log)

SpecConfig == Init /\ [][NextConfig]_vars

Positions == 0..(DfLen(df) - 1)

\* the submitted record behind the row at position p of df
Orig(p) == req.data[LabelAt(df, p) + 1]

IsMergedOutput(r) == "_merged_from" \in DOMAIN r
MergedOutputs == {m \in 1..Len(merged_records) : IsMergedOutput(merged_records[m])}

\* the lower and the higher position of the pair behind a merged output
SrcA(m) == CHOOSE a \in sources[m] : \A b \in sources[m] : a <= b
SrcB(m) == CHOOSE b \in sources[m] : \A a \in sources[m] : a <= b

\* the record has a non-null, non-empty value for the field
HasValue(rec, f) == f \in DOMAIN rec /\ rec[f] # PyNone /\ rec[f] # EmptyStr

MergeLoopOver == op = "reconcile" /\ pc \in {"finish", "done"}
MatchFields == ConfigGet(req.matching_config, "matching_fields", << >>)

(* ------------------------------------------------------------------ *)
(* C1  Conservation: when the merge step of a reconcile call is over,   *)
(* the output has one record per row of the deduplicated frame minus    *)
(* one per merged pair, and every row of that frame is a source of      *)
(* exactly one output record.                                           *)
(* ------------------------------------------------------------------ *)
C1_Conservation ==
    MergeLoopOver =>
        /\ Len(merged_records) = DfLen(df) - Cardinality(MergedOutputs)
        /\ \A p \in Positions :
              Cardinality({m \in 1..Len(merged_records) : p \in sources[m]}) = 1

(* ------------------------------------------------------------------ *)
(* C2  At every step of a merge run, no two merged output records       *)
(* share a source index, each merged record has two distinct sources,   *)
(* and the claimed indices are exactly the sources of merged records.   *)
(* ------------------------------------------------------------------ *)
C2_ClaimedAtMostOnce ==
    (op = "reconcile" /\ pc = "merge") \/ MergeLoopOver =>
        /\ \A m1, m2 \in MergedOutputs : m1 # m2 => sources[m1] \cap sources[m2] = {}
        /\ \A m \in MergedOutputs : Cardinality(sources[m]) = 2
        /\ processed_indices = UNION {sources[m] : m \in MergedOutputs}

\* a chain: some match was skipped although another pair was merged
C2_Witness ==
    /\ MergeLoopOver
    /\ MergedOutputs # {}
    /\ Cardinality(MergedOutputs) < Len(matches)

(* ------------------------------------------------------------------ *)
(* C3  With non-empty match fields, the match list is exactly the       *)
(* pairs (i, j), i < j, of the frame whose score is >= the threshold,   *)
(* each once, in ascending (i, j) order, with the pair's score.         *)
(* ------------------------------------------------------------------ *)
MatchesComputed ==
    \/ op = "find_matches" /\ pc = "done"
    \/ op = "reconcile" /\ pc \in {"merge", "finish", "done"}

PairScore(i, j) == _calculate_record_similarity(Iloc(df, i), Iloc(df, j), MatchFields)

PairBefore(m1, m2) ==
    \/ m1.entity_1_index < m2.entity_1_index
    \/ m1.entity_1_index = m2.entity_1_index /\ m1.entity_2_index < m2.entity_2_index

C3_MatchesExact ==
    MatchesComputed /\ MatchFields # << >> =>
        /\ {<<matches[x].entity_1_index, matches[x].entity_2_index>> :
                x \in 1..Len(matches)}
           = {<<i, j>> \in Positions \X Positions :
                i < j /\ LET sc == PairScore(i, j)
                         IN  sc.pct >= req.threshold * sc.den}
        /\ \A x, y \in 1..Len(matches) : x < y => PairBefore(matches[x], matches[y])
        /\ \A x \in 1..Len(matches) :
              matches[x].similarity_score
                  = PairScore(matches[x].entity_1_index, matches[x].entity_2_index)
        /\ op = "find_matches" => response.matches = matches

\* a returned list holding a pair that scores exactly the threshold, while
\* another pair of the same request scores below it
C3_Witness ==
    /\ op = "find_matches" /\ pc = "done"
    /\ \E x \in 1..Len(matches) :
          matches[x].similarity_score.pct
              = req.threshold * matches[x].similarity_score.den
    /\ Len(matches) >= 2
    /\ \E i, j \in Positions :
          i < j /\ PairScore(i, j).pct < req.threshold * PairScore(i, j).den

(* ------------------------------------------------------------------ *)
(* C4  After deduplication with non-empty similarity fields, no two     *)
(* rows of the result score >= the dedup threshold.                     *)
(* ------------------------------------------------------------------ *)
DedupConfig == IF op = "deduplicate" THEN req.config ELSE req.matching_config
DedupFields == ConfigGet(DedupConfig, "similarity_fields", << >>)
DedupThreshold == ConfigGet(DedupConfig, "similarity_threshold", DefaultDedupThreshold)

Deduplicated ==
    \/ op = "deduplicate" /\ pc = "done"
    \/ op = "reconcile" /\ pc \in {"match", "merge", "finish", "done"}
       /\ req.deduplication

DedupScore(i, j) == _calculate_record_similarity(Iloc(df, i), Iloc(df, j), DedupFields)

C4_NoNearDuplicates ==
    Deduplicated /\ DedupFields # << >> =>
        /\ \A i, j \in Positions :
              i < j => DedupScore(i, j).pct < DedupThreshold * DedupScore(i, j).den
        /\ op = "deduplicate" => response.records = df.rows

\* the near-duplicate pass removed a row and at least two rows are left
C4_Witness ==
    /\ op = "deduplicate" /\ pc = "done"
    /\ DedupFields # << >>
    /\ DfLen(df) >= 2
    /\ DfLen(df) < DfLen(drop_duplicates(DataFrame(req.data)))

(* ------------------------------------------------------------------ *)
(* C5  A configured field that is missing from either record, or null   *)
(* or empty after trimming and lowercasing in either, is left out of    *)
(* the score: the score of every pair is the mean over the other        *)
(* fields only.                                                         *)
(* ------------------------------------------------------------------ *)
\* the submitted record carries a usable value for the field
Contributes(rec, f) ==
    f \in DOMAIN rec /\ rec[f].tag = "str" /\ Lower(Strip(rec[f].s)) # << >>

RECURSIVE ContributingSimilarities(_, _, _)
ContributingSimilarities(rec1, rec2, fields) ==
    IF fields = << >> THEN << >>
    ELSE LET f == Head(fields)
             rest == ContributingSimilarities(rec1, rec2, Tail(fields))
         IN  IF Contributes(rec1, f) /\ Contributes(rec2, f)
             THEN <<FuzzRatio(Lower(Strip(rec1[f].s)), Lower(Strip(rec2[f].s)))>> \o rest
             ELSE rest

ScoreOverContributing(rec1, rec2, fields) ==
    LET sims == ContributingSimilarities(rec1, rec2, fields)
    IN  IF sims = << >> THEN FloatV(0, 1) ELSE Mean(sims)

C5_MissingFieldsExcluded ==
    MatchesComputed /\ MatchFields # << >> =>
        \A i, j \in Positions :
            i < j => PairScore(i, j) = ScoreOverContributing(Orig(i), Orig(j), MatchFields)

(* ------------------------------------------------------------------ *)
(* C6  latest_wins: in every merged record a field holds B's value      *)
(* when B has a non-null, non-empty value for it, and A's value         *)
(* otherwise.                                                           *)
(* ------------------------------------------------------------------ *)
FieldsOfPair(m) == (DOMAIN Orig(SrcA(m))) \cup (DOMAIN Orig(SrcB(m)))

C6_LatestWins ==
    op = "reconcile" /\ req.merge_strategy = "latest_wins" =>
        \A m \in MergedOutputs : \A f \in FieldsOfPair(m) :
            IF HasValue(Orig(SrcB(m)), f)
            THEN merged_records[m][f] = Orig(SrcB(m))[f]
            ELSE f \in DOMAIN Orig(SrcA(m)) => merged_records[m][f] = Orig(SrcA(m))[f]

(* ------------------------------------------------------------------ *)
(* C7  first_wins: in every merged record a field holds A's value when  *)
(* A has a non-null, non-empty value for it, and B's value when the     *)
(* field is absent, null or empty in A.                                 *)
(* ------------------------------------------------------------------ *)
C7_FirstWins ==
    op = "reconcile" /\ req.merge_strategy = "first_wins" =>
        \A m \in MergedOutputs : \A f \in FieldsOfPair(m) :
            IF HasValue(Orig(SrcA(m)), f)
            THEN merged_records[m][f] = Orig(SrcA(m))[f]
            ELSE f \in DOMAIN Orig(SrcB(m)) => merged_records[m][f] = Orig(SrcB(m))[f]

(* ------------------------------------------------------------------ *)
(* C8  concatenate: in every merged record a field present in either    *)
(* record holds "A | B" when both values are non-empty and differ, and  *)
(* the single value, without separator, when both are equal or only     *)
(* one side has a value.                                                *)
(* ------------------------------------------------------------------ *)
C8_Concatenate ==
    op = "reconcile" /\ req.merge_strategy = "concatenate" =>
        \A m \in MergedOutputs : \A f \in FieldsOfPair(m) :
            LET A == Orig(SrcA(m))
                B == Orig(SrcB(m))
            IN  /\ HasValue(A, f) /\ HasValue(B, f) /\ A[f] # B[f]
                      => merged_records[m][f] = StrV(A[f].s \o Separator \o B[f].s)
                /\ HasValue(A, f) /\ HasValue(B, f) /\ A[f] = B[f]
                      => merged_records[m][f] = A[f]
                /\ HasValue(A, f) /\ ~HasValue(B, f) => merged_records[m][f] = A[f]
                /\ ~HasValue(A, f) /\ HasValue(B, f) => merged_records[m][f] = B[f]

(* ------------------------------------------------------------------ *)
(* C9  Every merged record carries mergedFrom = [identity of A,         *)
(* identity of B] and the score of its pair; the identity of a record   *)
(* is its id and, without an id, its positional index; the matcher      *)
(* reports the same identities for the pair.                            *)
(* ------------------------------------------------------------------ *)
Identity(p) ==
    IF "id" \in DOMAIN Orig(p) THEN Orig(p)["id"] ELSE StrV(StrOfInt(p))

MatchOf(m) ==
    CHOOSE x \in 1..Len(matches) :
        /\ matches[x].entity_1_index = SrcA(m)
        /\ matches[x].entity_2_index = SrcB(m)

C9_Provenance ==
    op = "reconcile" =>
        \A m \in MergedOutputs :
            /\ merged_records[m]["_merged_from"]
                   = ListV(<<Identity(SrcA(m)), Identity(SrcB(m))>>)
            /\ merged_records[m]["_merged_from"]
                   = ListV(<<matches[MatchOf(m)].entity_1_id,
                             matches[MatchOf(m)].entity_2_id>>)
            /\ merged_records[m]["_similarity_score"]
                   = matches[MatchOf(m)].similarity_score

(* ------------------------------------------------------------------ *)
(* C10  A reconcile call with a merge strategy outside latest_wins,     *)
(* first_wins, concatenate is rejected: it returns no completed result  *)
(* and records no job.                                                  *)
(* ------------------------------------------------------------------ *)
UnknownStrategy == op = "reconcile" /\ req.merge_strategy \notin KnownStrategies

JobRecorded ==
    \E x \in 1..Len(history) : history[x].reconciliation_id = reconciliation_id

BatchCall == op \in {"reconcile", "find_matches"}

C11_BatchTooLarge ==
    /\ BatchCall /\ Len(req.data) > max_batch_size =>
          /\ pc \notin {"match", "merge", "finish"}
          /\ pc = "done" =>
                /\ response.status = "BatchTooLarge"
                /\ op = "reconcile" => ~JobRecorded
    /\ BatchCall /\ Len(req.data) = max_batch_size /\ pc = "done" =>
          response.status # "BatchTooLarge"

(* ------------------------------------------------------------------ *)
(* C12  A reconcile call that fails in the middle of its computation    *)
(* surfaces an error, returns no merged records, and leaves a job with  *)
(* status failed in the history; a job with status completed exists     *)
(* only for calls that returned a full result.                          *)
(* ------------------------------------------------------------------ *)
CallFailed == op = "reconcile" /\ pc = "done" /\ response.status = "error"
CallCompleted == op = "reconcile" /\ pc = "done" /\ response.status = "completed"

\* the ids of the calls that returned a full result, the running one included
CompletedIds ==
    {log[x].response.reconciliation_id :
        x \in {y \in 1..Len(log) : log[y].response.status = "completed"}}
    \cup (IF CallCompleted THEN {reconciliation_id} ELSE {})

CompletedOnlyForFullResults ==
    \A x \in 1..Len(history) :
        history[x].status = "completed" => history[x].reconciliation_id \in CompletedIds

C12_FailedJobRecorded ==
    /\ CallFailed =>
          /\ "merged_records" \notin DOMAIN response
          /\ \E x \in 1..Len(history) :
                /\ history[x].reconciliation_id = reconciliation_id
                /\ history[x].status = "failed"
    /\ CompletedOnlyForFullResults

(* C12, as the code has it: a reconcile call that fails in the middle   *)
(* of its computation surfaces an error, returns no merged records and  *)
(* records no job at all: the history holds one entry, with status      *)
(* completed, for each call that returned a full result, and nothing    *)
(* else.                                                                *)
C12_FailureRecordsNothing ==
    /\ CallFailed =>
          /\ DOMAIN response = {"status"}
          /\ ~JobRecorded
    /\ CompletedOnlyForFullResults
    /\ \A x \in 1..Len(history) : history[x].status = "completed"
    /\ pc \in {"idle", "done"} => Len(history) = Cardinality(CompletedIds)

\* a call fails after an earlier call has completed and been recorded
C12_Witness ==
    /\ CallFailed
    /\ Len(history) = 1
    /\ Len(log) = 1 /\ log[1].response.status = "completed"

(* ------------------------------------------------------------------ *)
(* C13  Deduplicate is idempotent: deduplicating the records a          *)
(* deduplicate call returned, with the same config, returns these       *)
(* records unchanged, in the same order.                                *)
(* ------------------------------------------------------------------ *)
DedupReturned == op = "deduplicate" /\ pc = "done" /\ response.status = "ok"

DedupAgain ==
    ToDictRecords(_deduplicate_dataframe(DataFrame(response.records), req.config))

C13_DedupIdempotent ==
    DedupReturned => DedupAgain = response.records

(* ------------------------------------------------------------------ *)
(* C14  The exact-duplicate pass removes a record if and only if an     *)
(* earlier record of the list has the same fields with the same values, *)
(* id included: with no similarity fields configured, the records a     *)
(* deduplicate call keeps are the first occurrences, in their original  *)
(* order.                                                               *)
(* ------------------------------------------------------------------ *)
\* positions (from 0) of the records no earlier record is identical to
FirstOccurrences ==
    {i \in 0..(Len(req.data) - 1) :
        ~\E h \in 0..(i - 1) : req.data[h + 1] = req.data[i + 1]}

C14_ExactDuplicatePass ==
    DedupReturned /\ DedupFields = << >> =>
        /\ {LabelAt(df, p) : p \in Positions} = FirstOccurrences
        /\ \A p, q \in Positions : p < q => LabelAt(df, p) < LabelAt(df, q)
        /\ Len(response.records) = Cardinality(FirstOccurrences)

(* ------------------------------------------------------------------ *)
(* C15  When the merge step of a reconcile call is over, a row of the   *)
(* deduplicated frame is in the output as a standalone record, with     *)
(* its fields unchanged and without provenance or score fields, if and  *)
(* only if its index was not claimed by a merged pair.                  *)
(* ------------------------------------------------------------------ *)
\* the output holds the row at position p as a standalone record
Standalone(p) ==
    \E m \in 1..Len(merged_records) :
        /\ sources[m] = {p}
        /\ merged_records[m] = Iloc(df, p)
        /\ ~IsMergedOutput(merged_records[m])
        /\ "_similarity_score" \notin DOMAIN merged_records[m]

Claimed(p) == \E m \in MergedOutputs : p \in sources[m]

C15_StandaloneIffUnclaimed ==
    MergeLoopOver => \A p \in Positions : Standalone(p) <=> ~Claimed(p)

(* ------------------------------------------------------------------ *)
(* C16  The similarity score is symmetric: for the records of a         *)
(* find-matches call and its field list, the score of (A, B) equals     *)
(* the score of (B, A).                                                 *)
(* ------------------------------------------------------------------ *)
C16_Symmetry ==
    MatchesComputed /\ MatchFields # << >> =>
        \A i, j \in Positions : PairScore(i, j) = PairScore(j, i)

(* ------------------------------------------------------------------ *)
(* C17  Threshold monotonicity: for the records and match fields of a   *)
(* find-matches call, the pairs matched at a higher threshold are among *)
(* the pairs matched at a lower one, so raising the threshold never     *)
(* gives more matches.                                                  *)
(* ------------------------------------------------------------------ *)
ThresholdGrid == {0, 50, 60, 67, 80, 90, 100}

\* the pairs find_matches returns for the frame at threshold t
PairsAt(t) ==
    LET found == _find_entity_matches(df, req.matching_config, t)
    IN  {<<found[x].entity_1_index, found[x].entity_2_index>> : x \in 1..Len(found)}

ReturnedPairs ==
    {<<matches[x].entity_1_index, matches[x].entity_2_index>> : x \in 1..Len(matches)}

C17_ThresholdMonotone ==
    op = "find_matches" /\ pc = "done" =>
        /\ Cardinality(ReturnedPairs) = Len(matches)
        /\ \A t \in ThresholdGrid :
              LET at == PairsAt(t)
              IN  /\ t >= req.threshold =>
                        /\ at \subseteq ReturnedPairs
                        /\ Cardinality(at) <= Len(matches)
                  /\ t <= req.threshold =>
                        /\ ReturnedPairs \subseteq at
                        /\ Len(matches) <= Cardinality(at)

\* a higher threshold keeps some of the returned pairs and loses others,
\* and a lower one adds pairs
C17_Witness ==
    /\ op = "find_matches" /\ pc = "done"
    /\ \E t \in ThresholdGrid :
          /\ t > req.threshold
          /\ PairsAt(t) # {}
          /\ PairsAt(t) # ReturnedPairs
    /\ \E t \in ThresholdGrid : t < req.threshold /\ PairsAt(t) # ReturnedPairs

(* ------------------------------------------------------------------ *)
(* C18  Determinism: two reconcile calls with the same records, config, *)
(* threshold, dedupe flag and merge strategy return the same merged     *)
(* records in the same order, the same counts and the same confidence   *)
(* summary, whatever was called before and whatever the history holds;  *)
(* only the job id differs.                                             *)
(* ------------------------------------------------------------------ *)
\* a response without its job id
Content(r) ==
    IF r.status = "completed"
    THEN [original_records     |-> r.original_records,
          deduplicated_records |-> r.deduplicated_records,
          matched_pairs        |-> r.matched_pairs,
          merged_records       |-> r.merged_records,
          confidence_scores    |-> r.confidence_scores,
          status               |-> r.status]
    ELSE [status |-> r.status]

C18_Determinism ==
    /\ \A x, y \in 1..Len(log) :
          log[x].req = log[y].req => Content(log[x].response) = Content(log[y].response)
    /\ op = "reconcile" /\ pc = "done" =>
          \A x \in 1..Len(log) :
              log[x].req = req => Content(log[x].response) = Content(response)

\* the request of an earlier call is answered a second time, with a merged
\* pair in the output, after the first call has left its job in the history
C18_Witness ==
    /\ CallCompleted
    /\ \E x \in 1..Len(log) : log[x].req = req
    /\ MergedOutputs # {}
    /\ Len(history) = 2
    /\ history[1].reconciliation_id # history[2].reconciliation_id

(* ------------------------------------------------------------------ *)
(* C19  The confidence summary of an empty match list is returned       *)
(* without an error and holds a count of 0 and zeroed statistics:       *)
(* average, min, max, standard deviation and the three band counts are  *)
(* all 0.                                                               *)
(* ------------------------------------------------------------------ *)
SummaryKeys ==
    {"average_confidence", "min_confidence", "max_confidence", "std_confidence",
     "high_confidence_count", "medium_confidence_count", "low_confidence_count"}

NoMatches == CallCompleted /\ matches = << >>

C19_EmptySummaryZeroed ==
    NoMatches =>
        /\ response.matched_pairs = 0
        /\ SummaryKeys \subseteq DOMAIN response.confidence_scores
        /\ \A key \in SummaryKeys : response.confidence_scores[key].pct = 0

(* C19, as the code has it: the confidence summary of an empty match    *)
(* list is returned without an error and is empty: it holds no          *)
(* statistics at all, neither average, min, max, standard deviation     *)
(* nor band counts; the call completes with a pair count of 0.          *)
C19_EmptySummaryEmpty ==
    NoMatches =>
        /\ response.status = "completed"
        /\ response.matched_pairs = 0
        /\ DOMAIN response.confidence_scores = {}

\* a completed call that scored pairs and matched none
C19_Witness ==
    /\ NoMatches
    /\ MatchFields # << >>
    /\ DfLen(df) >= 2

(* ------------------------------------------------------------------ *)
(* C20  The band counts of a confidence summary partition the matches:  *)
(* high counts the scores above 0.9, medium those from 0.7 to 0.9, both *)
(* ends included, low those below 0.7, and the three counts add up to   *)
(* the number of matches.                                               *)
(* ------------------------------------------------------------------ *)
Summarized == CallCompleted /\ matches # << >>

ScoresWhere(lowest, highest, open_low, open_high) ==
    Cardinality({x \in 1..Len(matches) :
        LET sc == matches[x].similarity_score
        IN  /\ IF open_low THEN sc.pct > lowest * sc.den ELSE sc.pct >= lowest * sc.den
            /\ IF open_high THEN sc.pct < highest * sc.den ELSE sc.pct <= highest * sc.den})

C20_BandsPartition ==
    Summarized =>
        LET summary == response.confidence_scores
        IN  /\ summary.high_confidence_count.pct = ScoresWhere(90, 100, TRUE, FALSE)
            /\ summary.medium_confidence_count.pct = ScoresWhere(70, 90, FALSE, FALSE)
            /\ summary.low_confidence_count.pct = ScoresWhere(0, 70, FALSE, TRUE)
            /\ summary.high_confidence_count.pct + summary.medium_confidence_count.pct
                  + summary.low_confidence_count.pct = Len(matches)

\* a summary over a match scoring exactly 0.9, one scoring exactly 0.7 and
\* one scoring less
C20_Witness ==
    /\ Summarized
    /\ \E x \in 1..Len(matches) : matches[x].similarity_score = FloatV(90, 1)
    /\ \E x \in 1..Len(matches) : matches[x].similarity_score = FloatV(70, 1)
    /\ response.confidence_scores.medium_confidence_count.pct = 2
    /\ response.confidence_scores.low_confidence_count.pct = 1

(* ------------------------------------------------------------------ *)
(* C21  The job store is append-only: a step of any handler either      *)
(* leaves the history as it is or adds exactly one entry at its end;    *)
(* the step that adds one is the completion of a reconcile call, the    *)
(* entry carries the id that call returns, and every reconcile call     *)
(* that completes adds one. No entry already recorded is removed,       *)
(* moved or changed.                                                    *)
(* ------------------------------------------------------------------ *)
Completes == op = "reconcile" /\ pc = "finish" /\ pc' = "done"

HistoryStep ==
    \/ /\ history' = history
       /\ ~Completes
    \/ /\ Completes
       /\ Len(history') = Len(history) + 1
       /\ SubSeq(history', 1, Len(history)) = history
       /\ response'.status = "completed"
       /\ history'[Len(history')].reconciliation_id = response'.reconciliation_id

C21_AppendOnly == [][HistoryStep]_vars

\* two jobs are on record and a handler other than reconcile has just
\* run over them
C21_Witness ==
    /\ Len(history) = 2
    /\ history[1] # history[2]
    /\ op \in {"find_matches", "deduplicate", "get_job", "list_jobs"}
    /\ pc = "done"

(* ------------------------------------------------------------------ *)
(* C22  GetJob(id) answers with the entry recorded by the reconcile     *)
(* call that returned that id: the ids of the history are pairwise      *)
(* different, and the entry's original, deduplicated and matched-pair   *)
(* counts are the ones that call returned. For an id that no completed  *)
(* call returned it answers not found (404), which is not an empty      *)
(* result.                                                              *)
(* ------------------------------------------------------------------ *)
\* the calls of the log that returned the id
ReturnedBy(id) ==
    {x \in 1..Len(log) :
        /\ log[x].response.status = "completed"
        /\ log[x].response.reconciliation_id = id}

C22_GetJob ==
    /\ \A i, j \in 1..Len(history) :
          i # j => history[i].reconciliation_id # history[j].reconciliation_id
    /\ op = "get_job" /\ pc = "done" =>
          LET id == req.reconciliation_id
          IN  /\ Cardinality(ReturnedBy(id)) <= 1
              /\ ReturnedBy(id) = {} => response = [status |-> "not_found"]
              /\ \A x \in ReturnedBy(id) :
                    /\ response.status = "ok"
                    /\ response.job.reconciliation_id = id
                    /\ response.job.status = "completed"
                    /\ response.job.entity_type = log[x].req.entity_type
                    /\ response.job.original_records
                           = log[x].response.original_records
                    /\ response.job.deduplicated_records
                           = log[x].response.deduplicated_records
                    /\ response.job.matched_pairs = log[x].response.matched_pairs

\* a job is found whose id is not its place in the history (an earlier
\* call failed), it removed a record and matched a pair
C22_Witness ==
    /\ op = "get_job" /\ pc = "done"
    /\ response.status = "ok"
    /\ Len(history) = 1
    /\ response.job.reconciliation_id = 2
    /\ response.job.deduplicated_records < response.job.original_records
    /\ response.job.matched_pairs > 0

(* ------------------------------------------------------------------ *)
(* C23  Whatever the interleaving of reconcile, get-job and list-jobs   *)
(* requests, every reconcile call that has completed is on record       *)
(* exactly once, with the counts it returned, nothing else is on        *)
(* record, and what a read returns is made of whole entries of the      *)
(* history.                                                             *)
(* ------------------------------------------------------------------ *)
HistoryKeys ==
    {"reconciliation_id", "entity_type", "original_records", "deduplicated_records",
     "matched_pairs", "status"}

\* what the completed reconcile calls returned: those a caller has seen
\* and the one returning now
CompletedResponses ==
    {log[x].response : x \in {y \in 1..Len(log) : log[y].response.status = "completed"}}
    \cup (IF op = "reconcile" /\ pc = "done" /\ response.status = "completed"
          THEN {response} ELSE {})

EntriesOf(id) == {i \in 1..Len(history) : history[i].reconciliation_id = id}

HistoryEntries == {history[i] : i \in 1..Len(history)}

C23_WritesSerialized ==
    /\ \A r \in CompletedResponses :
          /\ Cardinality(EntriesOf(r.reconciliation_id)) = 1
          /\ \A i \in EntriesOf(r.reconciliation_id) :
                /\ DOMAIN history[i] = HistoryKeys
                /\ history[i].original_records = r.original_records
                /\ history[i].deduplicated_records = r.deduplicated_records
                /\ history[i].matched_pairs = r.matched_pairs
                /\ history[i].status = "completed"
    /\ Len(history) = Cardinality(CompletedResponses)
    /\ op = "get_job" /\ pc = "done" /\ response.status = "ok" =>
          response.job \in HistoryEntries
    /\ op = "list_jobs" /\ pc = "done" =>
          \A x \in 1..Len(response.jobs) : response.jobs[x] \in HistoryEntries

\* a list is read while a reconcile call is parked half-way, and the
\* call that started second is on record before the one that started
\* first
C23_Witness ==
    /\ op = "list_jobs" /\ pc = "done"
    /\ response.jobs # << >>
    /\ \E c \in suspended : c.pc = "merge" /\ c.reconciliation_id = 1
    /\ history[1].reconciliation_id = 2

(* ------------------------------------------------------------------ *)
(* C24  A reconcile call whose threshold lies outside [0, 1], or whose  *)
(* list of match fields is empty, is rejected with InvalidConfig        *)
(* before any work starts: it runs no step, answers invalid config      *)
(* and leaves no job on record.                                         *)
(* ------------------------------------------------------------------ *)
InvalidConfig ==
    \/ req.threshold < 0
    \/ req.threshold > 100
    \/ MatchFields = << >>

C24_InvalidConfigRejected ==
    op = "reconcile" /\ InvalidConfig =>
        /\ pc \notin {"match", "merge", "finish"}
        /\ pc = "done" => response = [status |-> "invalid_config"]
        /\ \A i \in 1..Len(history) :
              history[i].reconciliation_id # reconciliation_id

(* ------------------------------------------------------------------ *)
(* C25  For every pair of records and every field list the score lies   *)
(* in [0, 1], and it is exactly 0.0 when no configured field            *)
(* contributes: the list is empty, or each of its fields is missing,    *)
(* null or empty in at least one of the two records.                    *)
(* ------------------------------------------------------------------ *)
NoneContributes(rec1, rec2, fields) ==
    \A x \in 1..Len(fields) :
        ~Contributes(rec1, fields[x]) \/ ~Contributes(rec2, fields[x])

C25_ScoreInUnitInterval ==
    op = "find_matches" /\ pc = "done" =>
        \A i, j \in Positions : \A fields \in {<< >>, MatchFields} :
            LET sc == _calculate_record_similarity(Iloc(df, i), Iloc(df, j), fields)
            IN  /\ sc.tag = "float"
                /\ 0 <= sc.pct
                /\ sc.pct <= 100 * sc.den
                /\ NoneContributes(Orig(i), Orig(j), fields) => sc = FloatV(0, 1)

(* ------------------------------------------------------------------ *)
(* C26  ListJobs(limit, offset), limit >= 0 and offset >= 0, over a     *)
(* history of n jobs returns the jobs at places offset, offset + 1, ... *)
(* in creation order, min(limit, max(0, n - offset)) of them; an        *)
(* offset at or past the end gives an empty list and no error.          *)
(* ------------------------------------------------------------------ *)
Min2(a, b) == IF a <= b THEN a ELSE b

C26_ListJobsSlice ==
    op = "list_jobs" /\ pc = "done" /\ req.limit >= 0 /\ req.offset >= 0 =>
        /\ response.status = "ok"
        /\ Len(response.jobs)
               = Min2(req.limit, Max2(0, Len(history) - req.offset))
        /\ \A x \in 1..Len(response.jobs) :
              response.jobs[x] = history[req.offset + x]
        /\ \A x, y \in 1..Len(history) :
              x < y => history[x].reconciliation_id < history[y].reconciliation_id

\* a page that starts inside the history and is cut short by its end
C26_Witness ==
    /\ op = "list_jobs" /\ pc = "done"
    /\ Len(history) = 2
    /\ req.offset = 1
    /\ req.limit = 2
    /\ response.jobs = <<history[2]>>

(* ------------------------------------------------------------------ *)
(* C27  In the near-duplicate pass a row marked for removal removes no  *)
(* other row: a row is removed exactly when an earlier row that         *)
(* survives in the result scores >= the threshold against it. So for    *)
(* A~B, B~C, A not~C in that order B is removed and C survives, and     *)
(* the first record of the input always survives.                       *)
(* ------------------------------------------------------------------ *)
\* the frame the near-duplicate pass starts from
ExactDeduplicated == drop_duplicates(DataFrame(req.data))

\* the labels of the rows that are left after the pass
SurvivingLabels == {LabelAt(df, q) : q \in Positions}

Survives(p) == LabelAt(ExactDeduplicated, p) \in SurvivingLabels

NearScore(p, q) ==
    _calculate_record_similarity(Iloc(ExactDeduplicated, p), Iloc(ExactDeduplicated, q),
                                 DedupFields)

Near(p, q) == NearScore(p, q).pct >= DedupThreshold * NearScore(p, q).den

\* the pass has just run: deduplicate_data has returned, or
\* reconcile_entities has finished its step 1
PassJustRun ==
    \/ op = "deduplicate" /\ pc = "done" /\ response.status = "ok"
    \/ op = "reconcile" /\ pc = "match" /\ req.deduplication

C27_RemovedBySurvivor ==
    PassJustRun /\ DedupFields # << >> =>
        LET start    == ExactDeduplicated
            before   == 0..(DfLen(start) - 1)
            left     == SurvivingLabels
            fields   == DedupFields
            near_by  == DedupThreshold
        IN  /\ \A q \in before :
                  LabelAt(start, q) \notin left
                      <=> \E p \in before :
                             /\ p < q
                             /\ LabelAt(start, p) \in left
                             /\ LET sc == _calculate_record_similarity(
                                              Iloc(start, p), Iloc(start, q), fields)
                                IN  sc.pct >= near_by * sc.den
            /\ req.data # << >> => DfLen(df) > 0 /\ LabelAt(df, 0) = 0

\* the chain: the first row is near the second, the second near the
\* third, the first not near the third; the second is gone and the third
\* is left
C27_Witness ==
    /\ op = "deduplicate" /\ pc = "done"
    /\ DedupFields # << >>
    /\ DfLen(ExactDeduplicated) = 3
    /\ Near(0, 1) /\ Near(1, 2) /\ ~Near(0, 2)
    /\ Survives(0) /\ ~Survives(1) /\ Survives(2)

(* ------------------------------------------------------------------ *)
(* C28  The merge step is greedy, first match wins, over the match      *)
(* list in its order: a matched pair is merged exactly when it shares   *)
(* no index with a pair merged before it, the merged records come in    *)
(* the order of their matches, and after the run every matched pair     *)
(* has a claimed index.                                                 *)
(* ------------------------------------------------------------------ *)
PairOf(x) == {matches[x].entity_1_index, matches[x].entity_2_index}

\* the matches that were merged
MergedMatches == {x \in 1..Len(matches) : \E m \in MergedOutputs : sources[m] = PairOf(x)}

LabelsArePositions == \A p \in Positions : LabelAt(df, p) = p

Unclaimed == {p \in Positions : p \notin processed_indices}

C29_ConservationByPosition ==
    MergeLoopOver /\ LabelsArePositions =>
        LET pairs == Cardinality(MergedOutputs)
        IN  /\ Len(merged_records) = DfLen(df) - pairs
            /\ MergedOutputs = 1..pairs
            /\ 2 * pairs = Cardinality(processed_indices)
            /\ \A p \in Positions :
                  Cardinality({m \in 1..Len(merged_records) : p \in sources[m]}) = 1
            /\ \A m \in (pairs + 1)..Len(merged_records) :
                  \E p \in Unclaimed :
                      /\ sources[m] = {p}
                      /\ merged_records[m] = Iloc(df, p)
                      /\ m = pairs + Cardinality({q \in Unclaimed : q <= p})

\* deduplication was asked for and removed nothing; a pair was merged
\* and the row left over follows it
C29_Witness ==
    /\ MergeLoopOver
    /\ req.deduplication
    /\ DfLen(df) = 3
    /\ original_records = 3
    /\ Cardinality(MergedOutputs) = 1
    /\ Len(merged_records) = 2
    /\ processed_indices = {0, 2}
    /\ sources[2] = {1}

(* ------------------------------------------------------------------ *)
(* C30  In every completed reconcile result deduplicated_records <=     *)
(* original_records, with equality when deduplication is off;           *)
(* matched_pairs is the number of all pairs of the deduplicated set     *)
(* that score at or above the threshold, merged or skipped, so the      *)
(* merged output records are at most matched_pairs; and the band        *)
(* counts of the confidence summary add up to matched_pairs.            *)
(* ------------------------------------------------------------------ *)
PairsAtOrAbove ==
    {pr \in Positions \X Positions :
        /\ pr[1] < pr[2]
        /\ PairScore(pr[1], pr[2]).pct >= req.threshold * PairScore(pr[1], pr[2]).den}

BandKeys == {"high_confidence_count", "medium_confidence_count", "low_confidence_count"}

RECURSIVE SumOver(_, _)
SumOver(summary, keys) ==
    IF keys = {} THEN 0
    ELSE LET key == CHOOSE x \in keys : TRUE
         IN  summary[key].pct + SumOver(summary, keys \ {key})

BandCountsSum(summary) == SumOver(summary, BandKeys \cap DOMAIN summary)

C30_CountsConsistent ==
    CallCompleted =>
        /\ response.deduplicated_records <= response.original_records
        /\ ~req.deduplication =>
              response.deduplicated_records = response.original_records
        /\ response.matched_pairs = Cardinality(PairsAtOrAbove)
        /\ Cardinality({m \in 1..Len(response.merged_records) :
                           IsMergedOutput(response.merged_records[m])})
              <= response.matched_pairs
        /\ BandCountsSum(response.confidence_scores) = response.matched_pairs

====
